---------------------------- MODULE Spec2Model ----------------------------
(***************************************************************************)
(* A model of TradeAPI (src/trade_api.py): the aggregation layer of the    *)
(* World Trade Dashboard.  The store is the Ports table, a sequence of     *)
(* port activity records in insertion (rowid) order.  Every public method  *)
(* of TradeAPI is an operator that maps the instance state it reads (the   *)
(* shared cursor, the store) to its outcome (a returned value or a raised  *)
(* exception) and the state it leaves behind.                              *)
(*                                                                         *)
(* Numbers.  Volumes and port calls are integers.  The floats the code     *)
(* produces by dividing are modelled as exact fractions [n, d] in lowest   *)
(* terms; a value rounded to one decimal is kept as its number of tenths.  *)
(* round(x, 1) rounds the exact quotient, a tie to the even tenth: with    *)
(* totals below 80 a quotient that is a tie is a multiple of 1/16, which   *)
(* the floats hold exactly, and there round() rounds half to even.         *)
(*                                                                         *)
(* Row order.  SELECT DISTINCT yields values in the order of the table     *)
(* scan; GROUP BY yields its groups in the order of the grouping key.      *)
(***************************************************************************)
EXTENDS Integers, Sequences, FiniteSets, TLC

VARIABLES store,      \* the rows of table Ports, in rowid order
          years,      \* self.years, cached by the constructor
          countries,  \* self.countries, cached by the constructor
          cursor,     \* self.cursor: the rows of its statement not yet fetched
          last,       \* the latest completed call: [op, arg, ret]
          calls,      \* how many calls completed so far, counted up to 2
          pc,         \* concurrent callers: where each one is in its call
          req,        \* concurrent callers: the call each one makes
          res         \* concurrent callers: the outcome each one received

vars == <<store, years, countries, cursor, last, calls, pc, req, res>>

\* The longest store the model builds.
MaxRecords == 2

\* scale_ie's default scale.
SCALE == 1000000

-----------------------------------------------------------------------------
(* Inputs *)

Periods == {<<2024, 1>>, <<2025, 1>>, <<2025, 2>>}

\* country name and ISO3 code
Places == {<<"Canada", "CAN">>, <<"USA", "USA">>}

\* portcalls, import, export: 2024 is the year that can be without trade.
Volumes(year) == IF year = 2024 THEN {<<0, 0, 0>>, <<50, 1, 15>>}
                 ELSE {<<50, 1, 15>>, <<100, 5, 2>>}

Pool == UNION { { [year |-> p[1], month |-> p[2], country |-> c[1],
                   ISO3 |-> c[2], portcalls |-> v[1], import |-> v[2],
                   export |-> v[3]] : c \in Places, v \in Volumes(p[1]) } :
                p \in Periods }

StoreSpace == UNION { [1..n -> Pool] : n \in 0..MaxRecords }

\* 2023 is the year of no record.
YearArgs == {2023, 2024, 2025}

\* "canada" differs from a stored name in case only, "Can" is a proper prefix
\* of one, "Mexico" is no stored name.
CountryArgs == {"Canada", "canada", "USA", "Can", "Mexico"}

\* The collating order of the ISO3 codes.
ISO3Order == <<"CAN", "USA">>

\* ASCII lower-casing of the country names in use.
Lower(s) == CASE s = "Canada" -> "canada"
              [] s = "Can" -> "can"
              [] s = "USA" -> "usa"
              [] s = "Mexico" -> "mexico"
              [] OTHER -> s

-----------------------------------------------------------------------------
(* Outcomes of a call *)

RetNone == [tag |-> "None"]
RetInt(n) == [tag |-> "int", v |-> n]
RetNaN == [tag |-> "nan"]
RetTenths(t) == [tag |-> "float", tenths |-> t]
RetPcts(i, e) == [tag |-> "pcts", import_pct |-> i, export_pct |-> e]
RetFrame(rows, dtype) == [tag |-> "frame", rows |-> rows, dtype |-> dtype]
Raise(exc) == [tag |-> "raise", exc |-> exc]

SameRet(a, b) == a.tag = b.tag /\ a = b

-----------------------------------------------------------------------------
(* Exact fractions *)

RECURSIVE GCD(_, _)
GCD(a, b) == IF b = 0 THEN a ELSE GCD(b, a % b)

Rat(n, d) == LET g == GCD(n, d) IN [n |-> n \div g, d |-> d \div g]

RatDiv(r, k) == Rat(r.n, r.d * k)

RatAdd(a, b) ==
    LET g == GCD(a.d, b.d)
    IN  Rat(a.n * (b.d \div g) + b.n * (a.d \div g), (a.d \div g) * b.d)

RatLess(a, b) == a.n * b.d < b.n * a.d

\* n/d rounded to the nearest integer, a tie to the even one.
RoundHalfEven(n, d) ==
    LET q == n \div d
        r == n % d
    IN  IF 2 * r < d THEN q
        ELSE IF 2 * r > d THEN q + 1
        ELSE IF q % 2 = 0 THEN q ELSE q + 1


-----------------------------------------------------------------------------
(* SQLite: values, aggregates, the cursor *)

Null == [null |-> TRUE, v |-> 0]
Val(n) == [null |-> FALSE, v |-> n]

RECURSIVE SumSeq(_)
SumSeq(s) == IF s = <<>> THEN 0 ELSE Head(s) + SumSeq(Tail(s))

\* Variant of SqlSum: TOTAL(col), which is 0 and not NULL over no row.
SqlTotal(col) == Val(SumSeq(col))

\* SUM(col): NULL over no row, else the sum of every row's value.
SqlSum(col) == IF col = <<>> THEN Null ELSE Val(SumSeq(col))

\* DISTINCT over a table scan: each value once, where the scan meets it first.
RECURSIVE SqlDistinct(_)
SqlDistinct(col) ==
    IF col = <<>> THEN <<>>
    ELSE LET front == SqlDistinct(SubSeq(col, 1, Len(col) - 1))
             x == col[Len(col)]
         IN  IF \E i \in DOMAIN front : front[i] = x THEN front
             ELSE Append(front, x)

\* WHERE year = ?
WhereYear(st, year) == SelectSeq(st, LAMBDA r : r.year = year)

\* Variant of CountryMatches: the comparison under COLLATE NOCASE.
CountryMatchesNoCase(stored, given) == Lower(stored) = Lower(given)

\* The comparison of WHERE country = ?, under the column's BINARY collation.
CountryMatches(stored, given) == stored = given

\* WHERE country = ?
WhereCountry(st, country) ==
    SelectSeq(st, LAMBDA r : CountryMatches(r.country, country))

\* cursor.execute: the statement's rows replace whatever was pending.
execute(cur, rows) == rows

\* cursor.fetchall: every pending row, and none is left.
fetchall(cur) == [rows |-> cur, cursor |-> <<>>]

\* The integers of a set, ascending.
RECURSIVE Ascending(_)
Ascending(S) ==
    IF S = {} THEN <<>>
    ELSE LET m == CHOOSE x \in S : \A y \in S : x <= y
         IN  <<m>> \o Ascending(S \ {m})

-----------------------------------------------------------------------------
(* TradeAPI *)

\* Variant of load_years: SELECT year FROM Ports, without DISTINCT.
load_years_all(cur, st) ==
    LET c == execute(cur, [i \in DOMAIN st |-> <<st[i].year>>])
        f == fetchall(c)
    IN  [ret |-> [i \in DOMAIN f.rows |-> f.rows[i][1]], cursor |-> f.cursor]

load_years(cur, st) ==
    LET c == execute(cur, [i \in DOMAIN st |-> <<st[i].year>>])
        d == SqlDistinct(c)
        f == fetchall(d)
    IN  [ret |-> [i \in DOMAIN f.rows |-> f.rows[i][1]], cursor |-> f.cursor]

load_countries(cur, st) ==
    LET c == execute(cur, [i \in DOMAIN st |-> <<st[i].country>>])
        d == SqlDistinct(c)
        f == fetchall(d)
    IN  [ret |-> [i \in DOMAIN f.rows |-> f.rows[i][1]], cursor |-> f.cursor]

\* SELECT SUM(portcalls) FROM Ports WHERE year = ?
total_ships_query(st, year) ==
    LET m == WhereYear(st, year)
    IN  << << SqlSum([i \in DOMAIN m |-> m[i].portcalls]) >> >>

\* fetchall()[0][0]
total_ships_return(rows) ==
    IF rows = <<>> THEN Raise("IndexError")
    ELSE IF rows[1][1].null THEN RetNone ELSE RetInt(rows[1][1].v)

\* Variant of total_ships: fetchall() before execute(), so that a call returns
\* from the rows the statement before it left and leaves its own behind.
total_ships_stale(cur, st, year) ==
    LET f == fetchall(cur)
        c == execute(f.cursor, total_ships_query(st, year))
    IN  [ret |-> total_ships_return(f.rows), cursor |-> c]

total_ships(cur, st, year) ==
    LET c == execute(cur, total_ships_query(st, year))
        f == fetchall(c)
    IN  [ret |-> total_ships_return(f.rows), cursor |-> f.cursor]

\* SELECT SUM(import), SUM(export) FROM Ports WHERE year = ?
ie_dist_query(st, year) ==
    LET m == WhereYear(st, year)
    IN  << << SqlSum([i \in DOMAIN m |-> m[i].import]),
              SqlSum([i \in DOMAIN m |-> m[i].export]) >> >>

\* Variant of pct: (part // total) * 100, the division of integers floored.
pct_floordiv(part, total) == Rat((part \div total) * 100, 1)

\* (part / total) * 100
pct(part, total) == Rat(part * 100, total)

\* round(x, 1), as a number of tenths
round1(x) == RoundHalfEven(x.n * 10, x.d)

\* imports, exports = fetchall()[0], and the arithmetic that follows
ie_dist_return(rows) ==
    IF rows = <<>> THEN Raise("IndexError")
    ELSE IF Len(rows[1]) # 2 THEN Raise("ValueError")
    ELSE LET imports == rows[1][1]
             exports == rows[1][2]
             total == imports.v + exports.v
         IN  IF imports.null \/ exports.null THEN Raise("TypeError")
             ELSE IF total = 0 THEN Raise("ZeroDivisionError")
             ELSE RetPcts(round1(pct(imports.v, total)),
                          round1(pct(exports.v, total)))

ie_dist(cur, st, year) ==
    LET c == execute(cur, ie_dist_query(st, year))
        f == fetchall(c)
    IN  [ret |-> ie_dist_return(f.rows), cursor |-> f.cursor]

\* Variant of scale_ie: the Exports column is left unscaled.
scale_ie_imports_only(df, scale) ==
    [rows |-> [i \in DOMAIN df.rows |->
                 [df.rows[i] EXCEPT !.Imports = RatDiv(@, scale)]],
     dtype |-> IF df.dtype = "object" THEN "object" ELSE "float64"]

\* A DataFrame: its rows, and the dtype of its numeric columns (a frame read
\* from no row has object columns).
scale_ie(df, scale) ==
    [rows |-> [i \in DOMAIN df.rows |->
                 [df.rows[i] EXCEPT !.Imports = RatDiv(@, scale),
                                    !.Exports = RatDiv(@, scale)]],
     dtype |-> IF df.dtype = "object" THEN "object" ELSE "float64"]

\* SELECT ISO3, SUM(import) AS Imports, SUM(export) AS Exports
\* FROM Ports WHERE year = ? GROUP BY ISO3
world_query(st, year) ==
    LET m == WhereYear(st, year)
        codes == SelectSeq(ISO3Order,
                           LAMBDA c : \E i \in DOMAIN m : m[i].ISO3 = c)
        group(c) == SelectSeq(m, LAMBDA r : r.ISO3 = c)
        sum_i(c) == SumSeq([i \in DOMAIN group(c) |-> group(c)[i].import])
        sum_e(c) == SumSeq([i \in DOMAIN group(c) |-> group(c)[i].export])
    IN  [rows |-> [k \in DOMAIN codes |->
                     [ISO3 |-> codes[k],
                      Imports |-> Rat(sum_i(codes[k]), 1),
                      Exports |-> Rat(sum_e(codes[k]), 1)]],
         dtype |-> IF codes = <<>> THEN "object" ELSE "int64"]

get_world_data(st, year) ==
    LET df == scale_ie(world_query(st, year), SCALE)
    IN  [rows |-> [i \in DOMAIN df.rows |->
                     [ISO3 |-> df.rows[i].ISO3,
                      Imports |-> df.rows[i].Imports,
                      Exports |-> df.rows[i].Exports,
                      Trade |-> RatAdd(df.rows[i].Imports, df.rows[i].Exports)]],
         dtype |-> df.dtype]

\* SELECT SUM(import) AS Imports, SUM(export) AS Exports, year, month
\* FROM Ports WHERE country = ? GROUP BY year, month
country_query(st, country) ==
    LET m == WhereCountry(st, country)
        ys == Ascending({m[i].year : i \in DOMAIN m})
        ms == Ascending({m[i].month : i \in DOMAIN m})
        keys == [k \in 1..(Len(ys) * Len(ms)) |->
                   <<ys[((k - 1) \div Len(ms)) + 1], ms[((k - 1) % Len(ms)) + 1]>>]
        used == SelectSeq(keys, LAMBDA p :
                   \E i \in DOMAIN m : m[i].year = p[1] /\ m[i].month = p[2])
        group(p) == SelectSeq(m, LAMBDA r : r.year = p[1] /\ r.month = p[2])
        sum_i(p) == SumSeq([i \in DOMAIN group(p) |-> group(p)[i].import])
        sum_e(p) == SumSeq([i \in DOMAIN group(p) |-> group(p)[i].export])
    IN  [rows |-> [k \in DOMAIN used |->
                     [Imports |-> Rat(sum_i(used[k]), 1),
                      Exports |-> Rat(sum_e(used[k]), 1),
                      year |-> used[k][1], month |-> used[k][2]]],
         dtype |-> IF used = <<>> THEN "object" ELSE "int64"]

\* Over no matching row the frame is empty, and so are its day and Date columns.
get_country_data(st, country) ==
    LET df == scale_ie(country_query(st, country), SCALE)
    IN  [rows |-> [i \in DOMAIN df.rows |->
                     [Imports |-> df.rows[i].Imports,
                      Exports |-> df.rows[i].Exports,
                      year |-> df.rows[i].year,
                      month |-> df.rows[i].month,
                      day |-> 1,
                      Date |-> [year |-> df.rows[i].year,
                                month |-> df.rows[i].month,
                                day |-> 1]]],
         dtype |-> df.dtype]

\* df["Trade"].max(): the largest value, over at least one row
RECURSIVE MaxTrade(_)
MaxTrade(rows) ==
    IF Len(rows) = 1 THEN rows[1].Trade
    ELSE LET m == MaxTrade(Tail(rows))
         IN  IF RatLess(m, rows[1].Trade) THEN rows[1].Trade ELSE m

\* df["Trade"].sum()
RECURSIVE SumTrade(_)
SumTrade(rows) ==
    IF rows = <<>> THEN Rat(0, 1)
    ELSE RatAdd(rows[1].Trade, SumTrade(Tail(rows)))

\* Over no row max() is NaN and sum() is 0: the float 0.0 of a float64 column
\* (NaN / 0.0 is NaN), the int 0 of an object column (NaN / 0 raises).  Over
\* rows that sum to 0.0 the quotient 0.0 / 0.0 is NaN.
top_share(df) ==
    IF df.rows = <<>>
    THEN IF df.dtype = "object" THEN Raise("ZeroDivisionError") ELSE RetNaN
    ELSE LET max_trade == MaxTrade(df.rows)
             sum_trade == SumTrade(df.rows)
         IN  IF sum_trade.n = 0 THEN RetNaN
             ELSE LET q == Rat(max_trade.n * sum_trade.d,
                               max_trade.d * sum_trade.n)
                  IN  RetTenths(round1(Rat(q.n * 100, q.d)))

-----------------------------------------------------------------------------
(* The service in use: one call at a time *)

NoCall == [op |-> "none", arg |-> 0, ret |-> RetNone]

Idle == [p \in {1, 2} |-> "idle"]
NoReq == [p \in {1, 2} |-> [op |-> "none", year |-> 0]]
NoRes == [p \in {1, 2} |-> RetNone]

\* TradeAPI(db_path), over any store the loader may have written.
Init ==
    /\ store \in StoreSpace
    /\ years = load_years(<<>>, store).ret
    /\ countries = load_countries(load_years(<<>>, store).cursor, store).ret
    /\ cursor = load_countries(load_years(<<>>, store).cursor, store).cursor
    /\ last = NoCall
    /\ calls = 0
    /\ pc = Idle
    /\ req = NoReq
    /\ res = NoRes

Returned(op, arg, ret) ==
    /\ last' = [op |-> op, arg |-> arg, ret |-> ret]
    /\ calls' = IF calls < 2 THEN calls + 1 ELSE calls

TotalShips ==
    \E year \in YearArgs :
        LET r == total_ships(cursor, store, year)
        IN  /\ cursor' = r.cursor
            /\ Returned("total_ships", year, r.ret)
            /\ UNCHANGED <<store, years, countries, pc, req, res>>

IeDist ==
    \E year \in YearArgs :
        LET r == ie_dist(cursor, store, year)
        IN  /\ cursor' = r.cursor
            /\ Returned("ie_dist", year, r.ret)
            /\ UNCHANGED <<store, years, countries, pc, req, res>>

GetWorldData ==
    \E year \in YearArgs :
        LET df == get_world_data(store, year)
        IN  /\ Returned("get_world_data", year, RetFrame(df.rows, df.dtype))
            /\ UNCHANGED <<store, years, countries, cursor, pc, req, res>>

GetCountryData ==
    \E country \in CountryArgs :
        LET df == get_country_data(store, country)
        IN  /\ Returned("get_country_data", country, RetFrame(df.rows, df.dtype))
            /\ UNCHANGED <<store, years, countries, cursor, pc, req, res>>

\* top_share on a world snapshot, as the dashboard binds it.
TopShare ==
    \E year \in YearArgs :
        LET df == get_world_data(store, year)
        IN  /\ Returned("top_share", df, top_share(df))
            /\ UNCHANGED <<store, years, countries, cursor, pc, req, res>>

Next == TotalShips \/ IeDist \/ GetWorldData \/ GetCountryData \/ TopShare

Spec == Init /\ [][Next]_vars

-----------------------------------------------------------------------------
(* The service in use by two callers at once.  A call of total_ships or of *)
(* ie_dist is two steps on self.cursor, the one cursor of the instance:    *)
(* execute, then fetchall and the computing of the result.                 *)

Callers == {1, 2}

query_of(st, r) == IF r.op = "total_ships" THEN total_ships_query(st, r.year)
                   ELSE ie_dist_query(st, r.year)

return_of(r, rows) == IF r.op = "total_ships" THEN total_ships_return(rows)
                      ELSE ie_dist_return(rows)

ExecuteStep(p) ==
    /\ pc[p] = "idle"
    /\ \E op \in {"total_ships", "ie_dist"}, year \in YearArgs :
          /\ req' = [req EXCEPT ![p] = [op |-> op, year |-> year]]
          /\ cursor' = execute(cursor, query_of(store, [op |-> op, year |-> year]))
    /\ pc' = [pc EXCEPT ![p] = "fetch"]
    /\ UNCHANGED <<store, years, countries, last, calls, res>>

FetchStep(p) ==
    /\ pc[p] = "fetch"
    /\ LET f == fetchall(cursor)
       IN  /\ res' = [res EXCEPT ![p] = return_of(req[p], f.rows)]
           /\ cursor' = f.cursor
    /\ pc' = [pc EXCEPT ![p] = "done"]
    /\ UNCHANGED <<store, years, countries, last, calls, req>>

NextConc == \E p \in Callers : ExecuteStep(p) \/ FetchStep(p)

SpecConc == Init /\ [][NextConc]_vars

-----------------------------------------------------------------------------
(* What the claims speak of, stated on the store itself *)

\* The rows (by rowid) a year or a country name selects.
RowsOfYear(year) == {i \in DOMAIN store : store[i].year = year}
RowsOfCountry(country) == {i \in DOMAIN store : store[i].country = country}

\* The sum of column col over the rows S, each row counted.
RECURSIVE ColumnSum(_, _)
ColumnSum(S, col) ==
    IF S = {} THEN 0
    ELSE LET i == CHOOSE x \in S : TRUE
         IN  store[i][col] + ColumnSum(S \ {i}, col)

\* A fraction that is k millionths, for an integer k.
IsMillionths(r, k) == r.n * SCALE = k * r.d

\* Two rows of one (country, year, month).
Duplicate(i, j) ==
    /\ i # j
    /\ store[i].country = store[j].country
    /\ store[i].year = store[j].year
    /\ store[i].month = store[j].month

\* The call that returned last matched no record.
NoMatch ==
    \/ /\ last.op \in {"total_ships", "ie_dist", "get_world_data"}
       /\ RowsOfYear(last.arg) = {}
    \/ /\ last.op = "get_country_data"
       /\ RowsOfCountry(last.arg) = {}

\* What a call returns on an instance constructed just now over the store.
FreshResult(op, arg) ==
    CASE op = "total_ships" -> total_ships(<<>>, store, arg).ret
      [] op = "ie_dist" -> ie_dist(<<>>, store, arg).ret
      [] op = "get_world_data" ->
            RetFrame(get_world_data(store, arg).rows,
                     get_world_data(store, arg).dtype)
      [] op = "get_country_data" ->
            RetFrame(get_country_data(store, arg).rows,
                     get_country_data(store, arg).dtype)
      [] op = "top_share" -> top_share(arg)
      [] OTHER -> RetNone

-----------------------------------------------------------------------------
(* The claims *)

\* C1: total_ships(year) returns the sum of portcalls over every record of
\* that year, duplicates of one (country, year, month) included, and None, not
\* zero, when no record has the year; for a cached year the result is None or
\* a non-negative integer.
C1_TotalShips ==
    last.op = "total_ships" =>
        /\ RowsOfYear(last.arg) = {} => last.ret = RetNone
        /\ RowsOfYear(last.arg) # {} =>
              /\ last.ret.tag = "int"
              /\ last.ret.v = ColumnSum(RowsOfYear(last.arg), "portcalls")
        /\ (\E k \in DOMAIN years : years[k] = last.arg) =>
              /\ last.ret.tag \in {"None", "int"}
              /\ last.ret.tag = "int" => last.ret.v >= 0

\* Two records of one (country, year, month) were summed into the total.
C1_Witness ==
    /\ last.op = "total_ships"
    /\ last.ret.tag = "int"
    /\ last.ret.v = 100
    /\ \E i, j \in RowsOfYear(last.arg) : Duplicate(i, j)

\* C2: ie_dist on a year whose records total zero imports plus exports fails
\* with DivisionUndefined, and with no fault of the platform's arithmetic.
C2_ZeroTotalIsDivisionUndefined ==
    ( /\ last.op = "ie_dist"
      /\ RowsOfYear(last.arg) # {}
      /\ ColumnSum(RowsOfYear(last.arg), "import")
           + ColumnSum(RowsOfYear(last.arg), "export") = 0 )
    => last.ret = Raise("DivisionUndefined")

\* C3: top_share on a table that is empty, or whose Trade values are all
\* zero, fails with DivisionUndefined and returns no value.
C3_EmptyOrZeroIsDivisionUndefined ==
    ( /\ last.op = "top_share"
      /\ \A i \in DOMAIN last.arg.rows : last.arg.rows[i].Trade.n = 0 )
    => last.ret = Raise("DivisionUndefined")

\* C4: a call of total_ships, ie_dist, get_world_data or get_country_data
\* whose parameter matches no record returns None or an empty table and
\* raises nothing.
C4_NoMatchNeverRaises ==
    NoMatch =>
        \/ last.ret = RetNone
        \/ last.ret.tag = "frame" /\ last.ret.rows = <<>>

\* C5: get_world_data(year) returns one row for each ISO3 code among the
\* records of the year and no other row; a row's Imports and Exports are the
\* sums over every record of that year and code divided by 1,000,000, and its
\* Trade is its Imports plus its Exports.
C5_WorldSnapshot ==
    last.op = "get_world_data" =>
        LET rows == last.ret.rows
            codes == {store[i].ISO3 : i \in RowsOfYear(last.arg)}
            of(c) == {i \in RowsOfYear(last.arg) : store[i].ISO3 = c}
        IN  /\ last.ret.tag = "frame"
            /\ Len(rows) = Cardinality(codes)
            /\ \A c \in codes : \E k \in DOMAIN rows : rows[k].ISO3 = c
            /\ \A k \in DOMAIN rows :
                  /\ rows[k].ISO3 \in codes
                  /\ IsMillionths(rows[k].Imports,
                                  ColumnSum(of(rows[k].ISO3), "import"))
                  /\ IsMillionths(rows[k].Exports,
                                  ColumnSum(of(rows[k].ISO3), "export"))
                  /\ IsMillionths(rows[k].Trade,
                                  ColumnSum(of(rows[k].ISO3), "import")
                                    + ColumnSum(of(rows[k].ISO3), "export"))

\* A snapshot row that sums two records of one country, year and month.
C5_Witness ==
    /\ last.op = "get_world_data"
    /\ Len(last.ret.rows) = 1
    /\ last.ret.rows[1].Trade.n > 0
    /\ \E i, j \in RowsOfYear(last.arg) : Duplicate(i, j)

\* C6: get_country_data(country) returns one row for each (year, month) among
\* the records whose country is exactly the argument, over all years; a row
\* holds the pair's summed imports and exports divided by 1,000,000 and, as
\* Date, day 1 of that year and month.
C6_CountrySeries ==
    last.op = "get_country_data" =>
        LET rows == last.ret.rows
            keys == {<<store[i].year, store[i].month>> :
                       i \in RowsOfCountry(last.arg)}
            of(y, m) == {i \in RowsOfCountry(last.arg) :
                           store[i].year = y /\ store[i].month = m}
        IN  /\ last.ret.tag = "frame"
            /\ Len(rows) = Cardinality(keys)
            /\ \A p \in keys : \E k \in DOMAIN rows :
                  rows[k].year = p[1] /\ rows[k].month = p[2]
            /\ \A k \in DOMAIN rows :
                  /\ <<rows[k].year, rows[k].month>> \in keys
                  /\ IsMillionths(rows[k].Imports,
                        ColumnSum(of(rows[k].year, rows[k].month), "import"))
                  /\ IsMillionths(rows[k].Exports,
                        ColumnSum(of(rows[k].year, rows[k].month), "export"))
                  /\ rows[k].Date = [year |-> rows[k].year,
                                     month |-> rows[k].month, day |-> 1]

\* A series of two rows, of two different years.
C6_Witness ==
    /\ last.op = "get_country_data"
    /\ Len(last.ret.rows) = 2
    /\ last.ret.rows[1].year # last.ret.rows[2].year

\* C7: where ie_dist is defined (the imports and exports of the year do not
\* total zero) its two percentages, each rounded to one decimal, sum to 100.0
\* give or take 0.1.
C7_PercentagesSumTo100 ==
    ( /\ last.op = "ie_dist"
      /\ RowsOfYear(last.arg) # {}
      /\ ColumnSum(RowsOfYear(last.arg), "import")
           + ColumnSum(RowsOfYear(last.arg), "export") # 0 )
    => /\ last.ret.tag = "pcts"
       /\ last.ret.import_pct + last.ret.export_pct \in 999..1001

\* The two percentages are 6.25 and 93.75 before rounding: both are ties.
C7_Witness ==
    /\ last.op = "ie_dist"
    /\ last.ret.tag = "pcts"
    /\ last.ret.import_pct = 62
    /\ last.ret.export_pct = 938

\* C8: whatever was called before and however often, a call returns what it
\* returns on an instance constructed just now, and no call changes the store
\* or the cached years and countries.
C8_HistoryIndependent ==
    [][ /\ store' = store
        /\ years' = years
        /\ countries' = countries
        /\ SameRet(last'.ret, FreshResult(last'.op, last'.arg)) ]_vars

\* A call returned a value after another call had returned.
C8_Witness ==
    /\ calls = 2
    /\ last.op = "total_ships"
    /\ last.ret.tag = "int"

\* C9, as claimed: the cached years are every year of the store once, in
\* ascending order, whatever the order of insertion.
C9_YearsAscending ==
    /\ {years[k] : k \in DOMAIN years} = {store[i].year : i \in DOMAIN store}
    /\ \A a, b \in DOMAIN years : a < b => years[a] < years[b]

\* C9, amended: the cached years are every year of the store once, in the
\* order in which the rows of the store first show them.
C9_YearsInFirstOccurrenceOrder ==
    LET first(y) == CHOOSE i \in RowsOfYear(y) :
                       \A j \in RowsOfYear(y) : i <= j
    IN  /\ {years[k] : k \in DOMAIN years} = {store[i].year : i \in DOMAIN store}
        /\ \A a, b \in DOMAIN years : a # b => years[a] # years[b]
        /\ \A a, b \in DOMAIN years : a < b => first(years[a]) < first(years[b])

\* Two years cached, the later year first.
C9_Witness ==
    /\ Len(years) = 2
    /\ years[1] > years[2]

\* C10: in every interleaving of two calls among total_ships and ie_dist, a
\* caller receives what its call returns when it runs alone.
C10_ParallelCallsAsAlone ==
    \A p \in Callers :
        pc[p] = "done" => SameRet(res[p], FreshResult(req[p].op, req[p].year))

=============================================================================
